---- MODULE Spec2Model ----
(***************************************************************************)
(* Resilience-control primitives of the testing labs:                      *)
(*   - CircuitBreaker (lab5, api_reliability_test.py)                      *)
(*   - ResilientDataPipeline.process_with_circuit_breaker (lab11)          *)
(*   - ResilientDataPipeline.upload_with_retry (lab11)                     *)
(*   - ChaosFramework: fault injection on the CloudDataClient (lab11)      *)
(*   - ChaosFramework.run_chaos_monkey (lab11)                             *)
(*   - ResilientDataPipeline.run_resilient_pipeline (lab11)                *)
(* Each component has its own specification over the shared variables; the *)
(* variables of the other components stay at their initial values.         *)
(***************************************************************************)
EXTENDS Integers, Sequences, FiniteSets, TLC

VARIABLES
    now,                       \* time.time(), in whole seconds
    \* ---- CircuitBreaker (lab5) ----
    failure_threshold,         \* self.failure_threshold
    timeout,                   \* self.timeout
    failures,                  \* self.failures
    last_failure_time,         \* self.last_failure_time: None or Some(t)
    state,                     \* self.state
    cb_pc,                     \* "idle" between calls, "in_func" while func runs
    cb_calls,                  \* number of CircuitBreaker.call invocations so far
    cb_invocations,            \* number of times func was invoked
    cb_outcome,                \* what the caller saw from the last call
    cb_consec,                 \* current run of consecutive failing func invocations
    cb_maxConsec,              \* longest such run so far
    cb_probe,                  \* the last invocation of func was a HALF_OPEN probe
    \* ---- ResilientDataPipeline.process_with_circuit_breaker (lab11) ----
    circuit_breaker_failures,  \* self.circuit_breaker_failures: None (no attribute) or Some(n)
    circuit_breaker_opened,    \* self.circuit_breaker_opened: None (no attribute) or Some(t)
    pcb_pc,                    \* "idle" between calls, "in_op" while operation_func runs
    pcb_calls,                 \* number of process_with_circuit_breaker calls so far
    pcb_invocations,           \* number of times operation_func was invoked
    pcb_outcome,               \* what the caller saw from the last call
    pcb_consec,                \* current run of consecutive raising operation_func invocations
    \* ---- ResilientDataPipeline.upload_with_retry (lab11) ----
    max_retries,               \* the max_retries argument
    attempt,                   \* the loop variable of range(max_retries)
    r_pc,                      \* "loop" or "done"
    r_result,                  \* "none" while running, then "True", "False" or "raised"
    r_hist,                    \* behaviour of each upload_csv_to_s3 invocation, in order
    r_sleeps,                  \* seconds slept after each invocation (0: no sleep)
    r_send,                    \* behaviour of the dead-letter send_message call, if made
    dlq_sent,                  \* records handed to client.send_message(dead_letter_queue, .)
    dlq,                       \* records that arrived in the dead-letter queue
    \* ---- ChaosFramework and its CloudDataClient (lab11) ----
    upload_csv_to_s3,          \* self.client.upload_csv_to_s3: the callable it holds
    download_csv_from_s3,      \* self.client.download_csv_from_s3
    send_message,              \* self.client.send_message
    receive_messages,          \* self.client.receive_messages
    original_upload_for_latency, \* self._original_upload_for_latency: None (no attribute) or Some(f)
    latency_end_time,          \* self._latency_end_time: None (no attribute) or Some(t)
    original_upload_method,    \* self._original_upload_method: None or Some(f)
    original_s3_upload,        \* self._original_s3_upload: None (no attribute) or Some(f)
    original_s3_download,      \* self._original_s3_download
    s3_restore_time,           \* self._s3_restore_time
    original_sqs_send,         \* self._original_sqs_send
    original_sqs_receive,      \* self._original_sqs_receive
    sqs_restore_time,          \* self._sqs_restore_time
    experiments_log,           \* self.experiments_log
    current_duration,          \* self.current_duration
    ch_acts,                   \* per log entry: what the activation returned, whether it took effect
    ch_last,                   \* the last operation on the framework or its client
    ch_repeat,                 \* the last operation repeated the one before it
    ch_raised,                 \* the exception the last framework operation raised, or "none"
    ch_call,                   \* the last client call and its result
    \* ---- ChaosFramework.run_chaos_monkey (lab11) ----
    m_pc,                      \* "idle", "loop" (at the while test), "active" (experiment
                               \* activated, before the sleep), "returned" or "raised"
    m_duration,                \* the duration argument
    m_interval,                \* the interval argument
    start_time,                \* start_time
    experiment_count,          \* experiment_count
    m_iterations,              \* loop iterations begun
    m_experiment,              \* the experiment chosen in this iteration
    \* ---- ResilientDataPipeline.run_resilient_pipeline (lab11) ----
    pl_pc,                     \* "idle", "upload" (in upload_with_retry), "process" or "done"
    enable_chaos,              \* the enable_chaos argument
    pl_attempt,                \* the attempt of upload_with_retry
    pl_stored,                 \* the raw object in the bucket: None or Some(DataFrame)
    pl_accepted,               \* storage and queue accepted every request so far
    pl_result,                 \* "none" while running, then "True" or "False"
    pl_cause,                  \* why the run returned False, or "none"
    \* ---- CloudMonitor (lab10): monitor_s3_bucket and monitor_sqs_queue threads ----
    metrics,                   \* self.metrics (the four counters)
    last_files,                \* last_files of monitor_s3_bucket
    bucket,                    \* the keys in the monitored bucket
    s3_pc,                     \* S3 thread: "try", "except" (before the load of the
                               \* counter) or "store" (counter loaded, not yet stored)
    sqs_pc,                    \* SQS thread: the same positions
    s3_loaded,                 \* S3 thread: the value of metrics['errors'] it loaded
    sqs_loaded,                \* SQS thread: the value of metrics['errors'] it loaded
    mon_caught,                \* exceptions caught by the two loops so far
    mon_announced,             \* per key: NEW_S3_FILE notifications sent for it
    s3_polls,                  \* iterations of the S3 loop begun
    sqs_polls,                 \* iterations of the SQS loop begun
    \* ---- calculate_commission (lab3) ----
    amount,                    \* the amount argument
    calc_pc,                   \* "call" or "done"
    calc_result,               \* what the call returned or raised
    \* ---- ResilienceMonitor.collect_metrics (lab11) ----
    retry_count,               \* self.pipeline.retry_count
    rm_experiments_log,        \* self.chaos.experiments_log of the monitor's own framework
    rm_metrics,                \* self.metrics
    rm_observed                \* per record: what the iteration's pipeline run did

cbVars == <<failure_threshold, timeout, failures, last_failure_time, state, cb_pc,
            cb_calls, cb_invocations, cb_outcome, cb_consec, cb_maxConsec, cb_probe>>

pcbVars == <<circuit_breaker_failures, circuit_breaker_opened, pcb_pc, pcb_calls,
             pcb_invocations, pcb_outcome, pcb_consec>>

retryVars == <<max_retries, attempt, r_pc, r_result, r_hist, r_sleeps, r_send, dlq_sent, dlq>>

clientVars == <<upload_csv_to_s3, download_csv_from_s3, send_message, receive_messages>>

savedVars == <<original_upload_for_latency, latency_end_time, original_upload_method,
               original_s3_upload, original_s3_download, s3_restore_time,
               original_sqs_send, original_sqs_receive, sqs_restore_time>>

chaosVars == <<clientVars, savedVars, experiments_log, current_duration, ch_acts, ch_last,
               ch_repeat, ch_raised, ch_call>>

monkeyVars == <<m_pc, m_duration, m_interval, start_time, experiment_count, m_iterations,
                m_experiment>>

pipeVars == <<pl_pc, enable_chaos, pl_attempt, pl_stored, pl_accepted, pl_result, pl_cause>>

monitorVars == <<metrics, last_files, bucket, s3_pc, sqs_pc, s3_loaded, sqs_loaded,
                 mon_caught, mon_announced, s3_polls, sqs_polls>>

calcVars == <<amount, calc_pc, calc_result>>

rmVars == <<retry_count, rm_experiments_log, rm_metrics, rm_observed>>

\* the components added to lab5's breaker and lab11's framework and pipeline
labVars == <<monitorVars, calcVars, rmVars>>

\* the components around the ChaosFramework
otherVars == <<cbVars, pcbVars, retryVars, monkeyVars, pipeVars, labVars>>

\* the components of lab5 and lab11
coreVars == <<now, cbVars, pcbVars, retryVars, chaosVars, monkeyVars, pipeVars>>

vars == <<coreVars, labVars>>

\* ---------------------------------------------------------------------------
\* Bounds of the model
\* ---------------------------------------------------------------------------
MaxThreshold == 3
MaxTimeout == 2
MaxTime == 6
MaxCalls == 5
PcbMaxTime == 31
PcbMaxCalls == 6
MaxRetriesBound == 4
MaxLog == 2
MaxChaosTime == 2
MaxMonkeyDuration == 3
MaxMonkeyLog == 3

\* Python's None and a set value
None == <<>>
Some(t) == <<t>>

\* ---------------------------------------------------------------------------
\* CircuitBreaker (lab5)
\* ---------------------------------------------------------------------------

\* line 38: time.time() - self.last_failure_time > self.timeout
TimeoutElapsed(t, lft, to) == t - lft[1] > to

\* line 58: self.failures >= self.failure_threshold
ShouldTripStrict(f, th) == f > th
ShouldTripEarly(f, th) == f + 1 >= th
ShouldTrip(f, th) == f >= th

\* line 62: raise e
ReraisesNot == FALSE
Reraises == TRUE

\* CircuitBreaker.__init__, for every threshold and timeout within the bounds
InitCB ==
    /\ failure_threshold \in 1..MaxThreshold
    /\ timeout \in 1..MaxTimeout
    /\ failures = 0
    /\ last_failure_time = None
    /\ state = "CLOSED"
    /\ cb_pc = "idle"
    /\ cb_calls = 0
    /\ cb_invocations = 0
    /\ cb_outcome = "none"
    /\ cb_consec = 0
    /\ cb_maxConsec = 0
    /\ cb_probe = FALSE

\* The breaker before any use, with the parameters of test_circuit_breaker scaled
\* into the bounds; the state of the breaker in the other components' specifications.
IdleCB ==
    /\ InitCB
    /\ failure_threshold = 1
    /\ timeout = 1

\* the clock advances, also while func is running
Tick ==
    /\ now < MaxTime
    /\ now' = now + 1
    /\ UNCHANGED <<cbVars, pcbVars, retryVars, chaosVars, monkeyVars, pipeVars, labVars>>

\* call, lines 37-42: OPEN and the timeout has not elapsed: raise "Circuit breaker is OPEN"
CallRejectedRefreshes ==
    /\ cb_pc = "idle"
    /\ cb_calls < MaxCalls
    /\ state = "OPEN"
    /\ ~TimeoutElapsed(now, last_failure_time, timeout)
    /\ cb_calls' = cb_calls + 1
    /\ cb_outcome' = "rejected"
    /\ last_failure_time' = Some(now)
    /\ UNCHANGED <<now, failure_threshold, timeout, failures, state,
                   cb_pc, cb_invocations, cb_consec, cb_maxConsec, cb_probe>>
    /\ UNCHANGED <<pcbVars, retryVars, chaosVars, monkeyVars, pipeVars, labVars>>
CallRejected ==
    /\ cb_pc = "idle"
    /\ cb_calls < MaxCalls
    /\ state = "OPEN"
    /\ ~TimeoutElapsed(now, last_failure_time, timeout)
    /\ cb_calls' = cb_calls + 1
    /\ cb_outcome' = "rejected"
    /\ UNCHANGED <<now, failure_threshold, timeout, failures, last_failure_time, state,
                   cb_pc, cb_invocations, cb_consec, cb_maxConsec, cb_probe>>
    /\ UNCHANGED <<pcbVars, retryVars, chaosVars, monkeyVars, pipeVars, labVars>>

\* call, lines 37-45: not OPEN, or OPEN with the timeout elapsed (then HALF_OPEN): func is invoked
CallInvoke ==
    /\ cb_pc = "idle"
    /\ cb_calls < MaxCalls
    /\ state = "OPEN" => TimeoutElapsed(now, last_failure_time, timeout)
    /\ state' = IF state = "OPEN" THEN "HALF_OPEN" ELSE state
    /\ cb_probe' = (state = "OPEN")
    /\ cb_calls' = cb_calls + 1
    /\ cb_invocations' = cb_invocations + 1
    /\ cb_pc' = "in_func"
    /\ cb_outcome' = "pending"
    /\ UNCHANGED <<now, failure_threshold, timeout, failures, last_failure_time,
                   cb_consec, cb_maxConsec>>
    /\ UNCHANGED <<pcbVars, retryVars, chaosVars, monkeyVars, pipeVars, labVars>>

\* call, lines 45-52: func returned
FuncReturns ==
    /\ cb_pc = "in_func"
    /\ IF state = "HALF_OPEN"
       THEN state' = "CLOSED" /\ failures' = 0
       ELSE UNCHANGED <<state, failures>>
    /\ cb_outcome' = "returned"
    /\ cb_consec' = 0
    /\ cb_pc' = "idle"
    /\ UNCHANGED <<now, failure_threshold, timeout, last_failure_time, cb_calls,
                   cb_invocations, cb_maxConsec, cb_probe>>
    /\ UNCHANGED <<pcbVars, retryVars, chaosVars, monkeyVars, pipeVars, labVars>>

\* call, lines 54-62: func raised
FuncRaises ==
    /\ cb_pc = "in_func"
    /\ failures' = failures + 1
    /\ last_failure_time' = Some(now)
    /\ state' = IF ShouldTrip(failures', failure_threshold) THEN "OPEN" ELSE state
    /\ cb_outcome' = IF Reraises THEN "raised" ELSE "returned"
    /\ cb_consec' = cb_consec + 1
    /\ cb_maxConsec' = IF cb_consec' > cb_maxConsec THEN cb_consec' ELSE cb_maxConsec
    /\ cb_pc' = "idle"
    /\ UNCHANGED <<now, failure_threshold, timeout, cb_calls, cb_invocations, cb_probe>>
    /\ UNCHANGED <<pcbVars, retryVars, chaosVars, monkeyVars, pipeVars, labVars>>


\* ---------------------------------------------------------------------------
\* ResilientDataPipeline.process_with_circuit_breaker (lab11)
\* ---------------------------------------------------------------------------

\* line 83: max_failures = 3
max_failures == 3
\* line 84: reset_timeout = 30
reset_timeout == 30

\* line 86: hasattr(self, 'circuit_breaker_failures') and self.circuit_breaker_failures >= max_failures
PcbIsOpenStrict(f) == f # None /\ f[1] > max_failures
PcbIsOpen(f) == f # None /\ f[1] >= max_failures

\* line 87: time.time() - getattr(self, 'circuit_breaker_opened', 0) < reset_timeout
PcbWithinTimeout(t, opened) == t - (IF opened = None THEN 0 ELSE opened[1]) < reset_timeout

\* ResilientDataPipeline.__init__ sets neither attribute
InitPCB ==
    /\ circuit_breaker_failures = None
    /\ circuit_breaker_opened = None
    /\ pcb_pc = "idle"
    /\ pcb_calls = 0
    /\ pcb_invocations = 0
    /\ pcb_outcome = "none"
    /\ pcb_consec = 0

\* the clock advances, also while operation_func is running
PcbTick ==
    /\ now < PcbMaxTime
    /\ now' = now + 1
    /\ UNCHANGED <<cbVars, pcbVars, retryVars, chaosVars, monkeyVars, pipeVars, labVars>>

\* lines 86-89: open and within the reset timeout: return None
PcbBlocked ==
    /\ pcb_pc = "idle"
    /\ pcb_calls < PcbMaxCalls
    /\ PcbIsOpen(circuit_breaker_failures)
    /\ PcbWithinTimeout(now, circuit_breaker_opened)
    /\ pcb_calls' = pcb_calls + 1
    /\ pcb_outcome' = "None"
    /\ UNCHANGED <<now, circuit_breaker_failures, circuit_breaker_opened, pcb_pc,
                   pcb_invocations, pcb_consec>>
    /\ UNCHANGED <<cbVars, retryVars, chaosVars, monkeyVars, pipeVars, labVars>>

\* lines 86-96: not open, or open with the timeout elapsed (then the count is reset):
\* operation_func is invoked
PcbInvoke ==
    /\ pcb_pc = "idle"
    /\ pcb_calls < PcbMaxCalls
    /\ ~(PcbIsOpen(circuit_breaker_failures) /\ PcbWithinTimeout(now, circuit_breaker_opened))
    /\ circuit_breaker_failures' =
          IF PcbIsOpen(circuit_breaker_failures) THEN Some(0) ELSE circuit_breaker_failures
    /\ pcb_calls' = pcb_calls + 1
    /\ pcb_invocations' = pcb_invocations + 1
    /\ pcb_pc' = "in_op"
    /\ pcb_outcome' = "pending"
    /\ UNCHANGED <<now, circuit_breaker_opened, pcb_consec>>
    /\ UNCHANGED <<cbVars, retryVars, chaosVars, monkeyVars, pipeVars, labVars>>

\* lines 96-100: operation_func returned
PcbOpReturns ==
    /\ pcb_pc = "in_op"
    /\ circuit_breaker_failures' =
          IF circuit_breaker_failures # None THEN Some(0) ELSE circuit_breaker_failures
    /\ pcb_outcome' = "returned"
    /\ pcb_consec' = 0
    /\ pcb_pc' = "idle"
    /\ UNCHANGED <<now, circuit_breaker_opened, pcb_calls, pcb_invocations>>
    /\ UNCHANGED <<cbVars, retryVars, chaosVars, monkeyVars, pipeVars, labVars>>

\* lines 102-113: operation_func raised
PcbOpRaises ==
    /\ pcb_pc = "in_op"
    /\ circuit_breaker_failures' =
          Some((IF circuit_breaker_failures = None THEN 0 ELSE circuit_breaker_failures[1]) + 1)
    /\ circuit_breaker_opened' =
          IF circuit_breaker_failures'[1] >= max_failures THEN Some(now)
          ELSE circuit_breaker_opened
    /\ pcb_outcome' = "raised"
    /\ pcb_consec' = pcb_consec + 1
    /\ pcb_pc' = "idle"
    /\ UNCHANGED <<now, pcb_calls, pcb_invocations>>
    /\ UNCHANGED <<cbVars, retryVars, chaosVars, monkeyVars, pipeVars, labVars>>

\* ---------------------------------------------------------------------------
\* ResilientDataPipeline.upload_with_retry (lab11)
\* ---------------------------------------------------------------------------

\* client.upload_csv_to_s3 either raises ("raise"), returns a falsy value ("falsy") or
\* returns a truthy value ("truthy"); client.send_message delivers and returns the
\* MessageId ("ok"), fails and returns None ("none", cloud_client.py 119-121), or
\* raises ("raise", the failing_send of chaos_framework.py 124-125).

\* line 48: for attempt in range(max_retries)
InRange(a, n) == a < n

\* line 53: if success
IsSuccessInverted(b) == b = "falsy"
IsSuccess(b) == b = "truthy"

\* lines 58-59 and 63-64: if attempt < max_retries - 1: time.sleep(2 ** attempt)
SleepAfterEvery(a, n) == IF a < n THEN 2 ^ a ELSE 0
SleepAfter(a, n) == IF a < n - 1 THEN 2 ^ a ELSE 0

\* lines 69-75: error_message
DeadLetterRecordOffByOne(bucket_name, file_key, t, n) ==
    [error_type |-> "UPLOAD_FAILED", bucket |-> bucket_name, file_key |-> file_key,
     timestamp |-> t, attempts |-> n - 1]
DeadLetterRecord(bucket_name, file_key, t, n) ==
    [error_type |-> "UPLOAD_FAILED", bucket |-> bucket_name, file_key |-> file_key,
     timestamp |-> t, attempts |-> n]

\* lines 68, 77-78: the send sits in try / except Exception, so its error stays inside
SendErrorPropagatesUnguarded(sb) == sb = "raise"
SendErrorPropagates(sb) == FALSE

\* a call of upload_with_retry, for every max_retries within the bound
InitRetry ==
    /\ max_retries \in 0..MaxRetriesBound
    /\ attempt = 0
    /\ r_pc = "loop"
    /\ r_result = "none"
    /\ r_hist = <<>>
    /\ r_sleeps = <<>>
    /\ r_send = "none"
    /\ dlq_sent = <<>>
    /\ dlq = <<>>

\* lines 48-64: one iteration of the loop, the upload behaving as b
Attempt(b) ==
    /\ r_pc = "loop"
    /\ InRange(attempt, max_retries)
    /\ r_hist' = Append(r_hist, b)
    /\ IF b # "raise" /\ IsSuccess(b)
       THEN /\ r_result' = "True"
            /\ r_pc' = "done"
            /\ r_sleeps' = Append(r_sleeps, 0)
            /\ UNCHANGED <<now, attempt>>
       ELSE /\ r_sleeps' = Append(r_sleeps, SleepAfter(attempt, max_retries))
            /\ now' = now + SleepAfter(attempt, max_retries)
            /\ attempt' = attempt + 1
            /\ UNCHANGED <<r_result, r_pc>>
    /\ UNCHANGED <<max_retries, r_send, dlq_sent, dlq>>
    /\ UNCHANGED <<cbVars, pcbVars, chaosVars, monkeyVars, pipeVars, labVars>>

\* lines 51-55
UploadSucceeds == Attempt("truthy")

\* lines 51, 56-59
UploadReturnsFalsy == Attempt("falsy")

\* lines 51, 61-64
UploadRaises == Attempt("raise")

\* lines 66-79: the loop is exhausted; the dead-letter send behaving as sb
SendDeadLetter(sb) ==
    /\ r_pc = "loop"
    /\ ~InRange(attempt, max_retries)
    /\ LET error_message == DeadLetterRecord("bucket", "key", now, max_retries)
       IN  /\ dlq_sent' = Append(dlq_sent, error_message)
           /\ dlq' = IF sb = "ok" THEN Append(dlq, error_message) ELSE dlq
    /\ r_send' = sb
    /\ r_result' = IF SendErrorPropagates(sb) THEN "raised" ELSE "False"
    /\ r_pc' = "done"
    /\ UNCHANGED <<now, max_retries, attempt, r_hist, r_sleeps>>
    /\ UNCHANGED <<cbVars, pcbVars, chaosVars, monkeyVars, pipeVars, labVars>>

\* lines 76, 79: send_message returns the MessageId
DlqSendDelivers == SendDeadLetter("ok")

\* line 76 with cloud_client.py 119-121: send_message fails and returns None
DlqSendReturnsNone == SendDeadLetter("none")

\* lines 76-78: send_message raises
DlqSendRaises == SendDeadLetter("raise")

\* The retry function before it is called, in the other components' specifications
IdleRetry ==
    /\ InitRetry
    /\ max_retries = 3

\* ---------------------------------------------------------------------------
\* ChaosFramework (lab11): fault injection by swapping the client's methods
\* ---------------------------------------------------------------------------

\* A callable held in a client attribute or in a saved-original attribute.
\* kind "orig": the CloudDataClient method named tag; kind "failing": the stub that
\* raises Exception(tag); kind "delayed": delayed_upload with its latency_end_time and
\* latency_ms; kind "corrupt": corrupt_upload with its probability (in percent).
Callable(kind, tag, end_time, ms, p) ==
    [kind |-> kind, tag |-> tag, end_time |-> end_time, ms |-> ms, p |-> p]

\* cloud_client.py: the methods of CloudDataClient
Orig(op) == Callable("orig", op, 0, 0, 0)

\* chaos_framework.py 107-110, 124-127: failing_upload, failing_download, failing_send,
\* failing_receive
Failing(tag) == Callable("failing", tag, 0, 0, 0)

\* chaos_framework.py 73-76: delayed_upload
DelayedUpload(end_time, ms) == Callable("delayed", "", end_time, ms, 0)

\* chaos_framework.py 206-221: corrupt_upload
CorruptUpload(p) == Callable("corrupt", "", 0, 0, p)

\* the columns written by generate_sample_data (resilient_pipeline.py 34-41)
Columns == {"transaction_id", "customer_id", "amount", "department", "timestamp", "status"}

\* A DataFrame: len rows of the generated data, followed by dups rows that repeat
\* some of them; cols its columns, nulled the columns whose values are all None.
DataFrame(len, dups, cols, nulled) ==
    [len |-> len, dups |-> dups, cols |-> cols, nulled |-> nulled]

Min(a, b) == IF a <= b THEN a ELSE b
Max(a, b) == IF a >= b THEN a ELSE b

\* len(df)
Rows(df) == df.len + df.dups

\* chaos_framework.py 211-214: "nulls": every column for which random.random() < 0.2
CorruptNulls(df, nullset) == [df EXCEPT !.nulled = @ \cup (nullset \cap df.cols)]

\* chaos_framework.py 215-217: "duplicates": pd.concat([df2, df2.sample(min(5, len(df2)))])
CorruptDuplicates(df) == [df EXCEPT !.dups = @ + Min(5, Rows(df))]

\* chaos_framework.py 218-219: "truncate": df2.head(max(1, len(df2)//2))
CorruptTruncate(df) ==
    LET kept == Min(Rows(df), Max(1, Rows(df) \div 2))
    IN  [df EXCEPT !.len = Min(df.len, kept), !.dups = kept - Min(df.len, kept)]

\* chaos_framework.py 209-219: the corrupted copy, for the outcome draw of the random
\* choices (draw.corruption is random.choice's pick, draw.nullset the columns drawn)
Corrupted(df, draw) ==
    CASE draw.corruption = "nulls" -> CorruptNulls(df, draw.nullset)
      [] draw.corruption = "duplicates" -> CorruptDuplicates(df)
      [] draw.corruption = "truncate" -> CorruptTruncate(df)

\* chaos_framework.py 207: random.random() < probability, both in percent
CorruptionDrawn(r, p) == r < p

\* chaos_framework.py 74: time.time() < latency_end_time
InLatencyWindowInclusive(t, end_time) == t <= end_time
InLatencyWindow(t, end_time) == t < end_time

\* The outcome of a client call: "returned" with the value ret, or the exception's
\* name or message; delay is the injected sleep in ms, df the DataFrame that reached
\* the CloudDataClient method (delivered says whether one did).
CallResult(outcome, ret, delay, df, delivered) ==
    [outcome |-> outcome, ret |-> ret, delay |-> delay, df |-> df, delivered |-> delivered]

\* Python's recursion limit, scaled: a chain of wrappers longer than this never ends
MaxDepth == 4

\* self.client.upload_csv_to_s3(df, ...) when the attribute holds fn: the wrappers look
\* their delegate up on self at call time (chaos_framework.py 76, 220-221); accept is
\* what the CloudDataClient method returns (cloud_client.py 66, 69)
RECURSIVE CallUpload(_, _, _, _, _)
CallUpload(fn, df, draw, accept, fuel) ==
    IF fuel = 0 THEN CallResult("RecursionError", FALSE, 0, df, FALSE)
    ELSE CASE fn.kind = "orig" -> CallResult("returned", accept, 0, df, TRUE)
           [] fn.kind = "failing" -> CallResult(fn.tag, FALSE, 0, df, FALSE)
           [] fn.kind = "delayed" ->
                LET d == IF InLatencyWindow(now, fn.end_time) THEN fn.ms ELSE 0
                    inner == IF original_upload_for_latency = None
                             THEN CallResult("AttributeError", FALSE, 0, df, FALSE)
                             ELSE CallUpload(original_upload_for_latency[1], df, draw,
                                             accept, fuel - 1)
                IN  [inner EXCEPT !.delay = @ + d]
           [] fn.kind = "corrupt" ->
                LET df2 == IF CorruptionDrawn(draw.r, fn.p) THEN Corrupted(df, draw) ELSE df
                IN  IF original_upload_method = None
                    THEN CallResult("TypeError", FALSE, 0, df2, FALSE)
                    ELSE CallUpload(original_upload_method[1], df2, draw, accept, fuel - 1)

\* a call of one of the other three client methods when the attribute holds fn
CallOther(fn, df) ==
    IF fn.kind = "failing" THEN CallResult(fn.tag, FALSE, 0, df, FALSE)
    ELSE CallResult("returned", TRUE, 0, df, TRUE)

\* the values random.random() can take, in percent: it lies in [0, 1)
RandomDraws == {0, 29, 30, 99}

\* the outcomes of the random choices of one corrupt_upload call on df
Draws(df) ==
    [r : RandomDraws, corruption : {"nulls", "duplicates", "truncate"},
     nullset : SUBSET df.cols]

\* chaos_framework.py 51-59: the entry log_experiment appends (arg stands for the
\* description: the service type, the latency in ms or the probability in percent that
\* the activation writes into it)
LogEntry(type, arg, success, duration) ==
    [type |-> type, arg |-> arg, success |-> success, duration |-> duration]

\* what the last client call was: the method, the DataFrame passed, the time, what the
\* CloudDataClient method answers when it is reached, and the result
ClientCall(op, sent, at, accept, result) ==
    [op |-> op, sent |-> sent, at |-> at, accept |-> accept, result |-> result]

NoCall ==
    ClientCall("none", DataFrame(0, 0, {}, {}), 0, FALSE,
               CallResult("none", FALSE, 0, DataFrame(0, 0, {}, {}), FALSE))

\* ChaosFramework.__init__ (chaos_framework.py 45-49) on a fresh CloudDataClient
InitChaos ==
    /\ upload_csv_to_s3 = Orig("upload_csv_to_s3")
    /\ download_csv_from_s3 = Orig("download_csv_from_s3")
    /\ send_message = Orig("send_message")
    /\ receive_messages = Orig("receive_messages")
    /\ original_upload_for_latency = None
    /\ latency_end_time = None
    /\ original_upload_method = None
    /\ original_s3_upload = None
    /\ original_s3_download = None
    /\ s3_restore_time = None
    /\ original_sqs_send = None
    /\ original_sqs_receive = None
    /\ sqs_restore_time = None
    /\ experiments_log = <<>>
    /\ current_duration = 0
    /\ ch_acts = <<>>
    /\ ch_last = "init"
    /\ ch_repeat = FALSE
    /\ ch_raised = "none"
    /\ ch_call = NoCall

\* every activation and deactivation: it is the last operation, no call since
ChaosOp(name) ==
    /\ ch_last' = name
    /\ ch_repeat' = (ch_last = name)
    /\ ch_call' = NoCall

\* log_experiment (chaos_framework.py 51-59), by an activation that returns returned
\* and whose setup took effect or not
Logged(type, arg, success, returned, effect) ==
    /\ experiments_log' = Append(experiments_log, LogEntry(type, arg, success, current_duration'))
    /\ ch_acts' = Append(ch_acts, [returned |-> returned, effect |-> effect])

\* chaos_framework.py 68-69 and 203-204: the current upload operation is saved as the
\* original only when no original is saved yet
SavedOriginalOverwritten(saved, current) == Some(current)
SavedOriginal(saved, current) == IF saved = None THEN Some(current) ELSE saved

\* network_latency (chaos_framework.py 63-87)
NetworkLatencyBody(duration, latency_ms) ==
    /\ current_duration' = duration
    /\ original_upload_for_latency' =
          SavedOriginal(original_upload_for_latency, upload_csv_to_s3)
    /\ upload_csv_to_s3' = DelayedUpload(now + duration, latency_ms)
    /\ latency_end_time' = Some(now + duration)
    /\ Logged("NETWORK_LATENCY", ToString(latency_ms), TRUE, TRUE, TRUE)
    /\ ch_raised' = "none"
    /\ UNCHANGED <<download_csv_from_s3, send_message, receive_messages,
                   original_upload_method, original_s3_upload, original_s3_download,
                   s3_restore_time, original_sqs_send, original_sqs_receive,
                   sqs_restore_time>>

\* stop_network_latency (chaos_framework.py 89-96)
StopNetworkLatencyBody ==
    /\ IF original_upload_for_latency # None
       THEN /\ upload_csv_to_s3' = original_upload_for_latency[1]
            /\ original_upload_for_latency' = None
            /\ latency_end_time' = None
       ELSE UNCHANGED <<upload_csv_to_s3, original_upload_for_latency, latency_end_time>>
    /\ ch_raised' = "none"
    /\ UNCHANGED <<download_csv_from_s3, send_message, receive_messages,
                   original_upload_method, original_s3_upload, original_s3_download,
                   s3_restore_time, original_sqs_send, original_sqs_receive,
                   sqs_restore_time, experiments_log, current_duration, ch_acts>>

\* service_failure (chaos_framework.py 98-143): service_type "S3", "SQS" or any other
ServiceFailureBody(service_type, failure_duration) ==
    /\ current_duration' = failure_duration
    /\ IF service_type = "S3"
       THEN /\ original_s3_upload' = Some(upload_csv_to_s3)
            /\ original_s3_download' = Some(download_csv_from_s3)
            /\ upload_csv_to_s3' = Failing("S3 FAIL")
            /\ download_csv_from_s3' = Failing("S3 FAIL")
            /\ s3_restore_time' = Some(now + failure_duration)
       ELSE UNCHANGED <<original_s3_upload, original_s3_download, upload_csv_to_s3,
                        download_csv_from_s3, s3_restore_time>>
    /\ IF service_type = "SQS"
       THEN /\ original_sqs_send' = Some(send_message)
            /\ original_sqs_receive' = Some(receive_messages)
            /\ send_message' = Failing("SQS FAIL")
            /\ receive_messages' = Failing("SQS FAIL")
            /\ sqs_restore_time' = Some(now + failure_duration)
       ELSE UNCHANGED <<original_sqs_send, original_sqs_receive, send_message,
                        receive_messages, sqs_restore_time>>
    /\ Logged("SERVICE_FAILURE", service_type, TRUE, TRUE, service_type \in {"S3", "SQS"})
    /\ ch_raised' = "none"
    /\ UNCHANGED <<original_upload_for_latency, latency_end_time, original_upload_method>>

\* restore_services (chaos_framework.py 238-254)
RestoreServicesBody ==
    /\ IF original_s3_upload # None
       THEN /\ upload_csv_to_s3' = original_s3_upload[1]
            /\ download_csv_from_s3' = original_s3_download[1]
            /\ original_s3_upload' = None
            /\ original_s3_download' = None
            /\ s3_restore_time' = None
       ELSE UNCHANGED <<upload_csv_to_s3, download_csv_from_s3, original_s3_upload,
                        original_s3_download, s3_restore_time>>
    /\ IF original_sqs_send # None
       THEN /\ send_message' = original_sqs_send[1]
            /\ receive_messages' = original_sqs_receive[1]
            /\ original_sqs_send' = None
            /\ original_sqs_receive' = None
            /\ sqs_restore_time' = None
       ELSE UNCHANGED <<send_message, receive_messages, original_sqs_send,
                        original_sqs_receive, sqs_restore_time>>
    /\ ch_raised' = "none"
    /\ UNCHANGED <<original_upload_for_latency, latency_end_time, original_upload_method,
                   experiments_log, current_duration, ch_acts>>

\* high_cpu_load (chaos_framework.py 161-164): each round of the sampling loop takes
\* cpu_percent(interval=1) and sleep(2)
CpuElapsed(duration) == IF duration <= 0 THEN 0 ELSE 3 * ((duration + 2) \div 3)

\* high_cpu_load (chaos_framework.py 145-172); failed: the thread or psutil raised
HighCpuLoadBody(duration, failed) ==
    /\ current_duration' = duration
    /\ IF failed
       THEN Logged("HIGH_CPU_LOAD", "", FALSE, FALSE, FALSE) /\ UNCHANGED now
       ELSE Logged("HIGH_CPU_LOAD", "", TRUE, TRUE, TRUE) /\ now' = now + CpuElapsed(duration)
    /\ ch_raised' = "none"
    /\ UNCHANGED <<upload_csv_to_s3, download_csv_from_s3, send_message, receive_messages,
                   original_upload_for_latency, latency_end_time, original_upload_method,
                   original_s3_upload, original_s3_download, s3_restore_time,
                   original_sqs_send, original_sqs_receive, sqs_restore_time>>

\* memory_pressure (chaos_framework.py 174-198): only MemoryError is caught. raised is
\* what the allocation or psutil raised ("none", "MemoryError" or the name of any other
\* exception); time.sleep of a negative duration raises ValueError.
MemoryPressureRaises(duration, raised) ==
    IF raised # "none" THEN raised
    ELSE IF duration < 0 THEN "ValueError" ELSE "none"

MemoryPressureBody(duration, raised) ==
    /\ current_duration' = duration
    /\ IF MemoryPressureRaises(duration, raised) = "MemoryError"
       THEN /\ Logged("MEMORY_PRESSURE", "", FALSE, FALSE, FALSE)
            /\ ch_raised' = "none"
            /\ UNCHANGED now
       ELSE IF MemoryPressureRaises(duration, raised) # "none"
            THEN /\ ch_raised' = MemoryPressureRaises(duration, raised)
                 /\ UNCHANGED <<now, experiments_log, ch_acts>>
            ELSE /\ Logged("MEMORY_PRESSURE", "", TRUE, TRUE, TRUE)
                 /\ ch_raised' = "none"
                 /\ now' = now + duration
    /\ UNCHANGED <<upload_csv_to_s3, download_csv_from_s3, send_message, receive_messages,
                   original_upload_for_latency, latency_end_time, original_upload_method,
                   original_s3_upload, original_s3_download, s3_restore_time,
                   original_sqs_send, original_sqs_receive, sqs_restore_time>>

\* data_corruption (chaos_framework.py 200-230); it does not set current_duration
DataCorruptionBody(probability) ==
    /\ original_upload_method' = SavedOriginal(original_upload_method, upload_csv_to_s3)
    /\ upload_csv_to_s3' = CorruptUpload(probability)
    /\ UNCHANGED current_duration
    /\ Logged("DATA_CORRUPTION", ToString(probability), TRUE, TRUE, TRUE)
    /\ ch_raised' = "none"
    /\ UNCHANGED <<download_csv_from_s3, send_message, receive_messages,
                   original_upload_for_latency, latency_end_time, original_s3_upload,
                   original_s3_download, s3_restore_time, original_sqs_send,
                   original_sqs_receive, sqs_restore_time>>

\* stop_data_corruption (chaos_framework.py 232-236)
StopDataCorruptionBodyForgets ==
    /\ original_upload_method' = None
    /\ ch_raised' = "none"
    /\ UNCHANGED <<upload_csv_to_s3, download_csv_from_s3, send_message, receive_messages,
                   original_upload_for_latency, latency_end_time, original_s3_upload,
                   original_s3_download, s3_restore_time, original_sqs_send,
                   original_sqs_receive, sqs_restore_time, experiments_log,
                   current_duration, ch_acts>>
StopDataCorruptionBody ==
    /\ IF original_upload_method # None
       THEN /\ upload_csv_to_s3' = original_upload_method[1]
            /\ original_upload_method' = None
       ELSE UNCHANGED <<upload_csv_to_s3, original_upload_method>>
    /\ ch_raised' = "none"
    /\ UNCHANGED <<download_csv_from_s3, send_message, receive_messages,
                   original_upload_for_latency, latency_end_time, original_s3_upload,
                   original_s3_download, s3_restore_time, original_sqs_send,
                   original_sqs_receive, sqs_restore_time, experiments_log,
                   current_duration, ch_acts>>

\* ---- ChaosFramework driven by a test: any order of its operations and client calls ----

\* the DataFrame the test uploads
SampleData == DataFrame(2, 0, {"amount"}, {})

\* the (duration, latency_ms) arguments of network_latency
LatencyArgs == {<<1, 100>>, <<1, 1000>>}

\* the service_type arguments of service_failure; "DynamoDB" stands for any other string
ServiceTypes == {"S3", "SQS", "DynamoDB"}

\* the probability arguments of data_corruption, in percent
Probabilities == {0, 30, 100}

\* time passes between two operations of the test
ChaosTick ==
    /\ now < MaxChaosTime
    /\ now' = now + 1
    /\ ch_last' = "tick"
    /\ ch_repeat' = FALSE
    /\ UNCHANGED <<clientVars, savedVars, experiments_log, current_duration, ch_acts,
                   ch_raised, ch_call, otherVars>>

NetworkLatency ==
    /\ Len(experiments_log) < MaxLog
    /\ \E args \in LatencyArgs : NetworkLatencyBody(args[1], args[2])
    /\ ChaosOp("network_latency")
    /\ UNCHANGED <<now, otherVars>>

StopNetworkLatency ==
    /\ StopNetworkLatencyBody
    /\ ChaosOp("stop_network_latency")
    /\ UNCHANGED <<now, otherVars>>

ServiceFailure ==
    /\ Len(experiments_log) < MaxLog
    /\ \E service_type \in ServiceTypes : ServiceFailureBody(service_type, 1)
    /\ ChaosOp("service_failure")
    /\ UNCHANGED <<now, otherVars>>

RestoreServices ==
    /\ RestoreServicesBody
    /\ ChaosOp("restore_services")
    /\ UNCHANGED <<now, otherVars>>

DataCorruption ==
    /\ Len(experiments_log) < MaxLog
    /\ \E probability \in Probabilities : DataCorruptionBody(probability)
    /\ ChaosOp("data_corruption")
    /\ UNCHANGED <<now, otherVars>>

StopDataCorruption ==
    /\ StopDataCorruptionBody
    /\ ChaosOp("stop_data_corruption")
    /\ UNCHANGED <<now, otherVars>>

\* the results self.client.upload_csv_to_s3(df, ...) can have now, over the outcomes of
\* the wrapper's random choices
UploadResults(df, accept) ==
    {CallUpload(upload_csv_to_s3, df, draw, accept, MaxDepth) : draw \in Draws(df)}

\* the test calls self.client.upload_csv_to_s3(df, ...)
UploadCall ==
    /\ \E accept \in BOOLEAN : \E result \in UploadResults(SampleData, accept) :
          ch_call' = ClientCall("upload_csv_to_s3", SampleData, now, accept, result)
    /\ ch_last' = "call"
    /\ ch_repeat' = FALSE
    /\ UNCHANGED <<now, clientVars, savedVars, experiments_log, current_duration, ch_acts,
                   ch_raised>>
    /\ UNCHANGED otherVars

\* the test calls one of the other three client methods
OtherCall ==
    /\ \E op \in {"download_csv_from_s3", "send_message", "receive_messages"} :
          ch_call' = ClientCall(op, SampleData, now, TRUE,
                                CallOther(CASE op = "download_csv_from_s3" -> download_csv_from_s3
                                            [] op = "send_message" -> send_message
                                            [] op = "receive_messages" -> receive_messages,
                                          SampleData))
    /\ ch_last' = "call"
    /\ ch_repeat' = FALSE
    /\ UNCHANGED <<now, clientVars, savedVars, experiments_log, current_duration, ch_acts,
                   ch_raised>>
    /\ UNCHANGED otherVars

\* the framework before it is used, in the other components' specifications
IdleChaos == InitChaos

\* ---------------------------------------------------------------------------
\* ChaosFramework.run_chaos_monkey (chaos_framework.py 299-333)
\* ---------------------------------------------------------------------------

\* the interval arguments; time.sleep raises ValueError for a negative one
MonkeyIntervals == {-1, 1, 2}

\* random.randint(100, 1000)
MonkeyLatencies == {100, 1000}

\* random.uniform(0.1, 0.5), in percent
MonkeyProbabilities == {10, 50}

\* line 311: while time.time() - start_time < duration
MonkeyContinuesLate(t, start, duration) == t - start < duration - 1
MonkeyContinues(t, start, duration) == t - start < duration

InitMonkey ==
    /\ m_pc = "idle"
    /\ m_duration = 0
    /\ m_interval = 0
    /\ start_time = 0
    /\ experiment_count = 0
    /\ m_iterations = 0
    /\ m_experiment = "none"

\* lines 299-301: the call, on a new framework
MonkeyStart ==
    /\ m_pc = "idle"
    /\ \E duration \in 0..MaxMonkeyDuration, interval \in MonkeyIntervals :
          /\ m_duration' = duration
          /\ m_interval' = interval
    /\ start_time' = now
    /\ experiment_count' = 0
    /\ m_pc' = "loop"
    /\ UNCHANGED <<now, chaosVars, m_iterations, m_experiment>>
    /\ UNCHANGED <<cbVars, pcbVars, retryVars, pipeVars, labVars>>

\* line 311 false, lines 332-333: return experiment_count
MonkeyReturns ==
    /\ m_pc = "loop"
    /\ ~MonkeyContinues(now, start_time, m_duration)
    /\ m_pc' = "returned"
    /\ UNCHANGED <<now, chaosVars, m_duration, m_interval, start_time, experiment_count,
                   m_iterations, m_experiment>>
    /\ UNCHANGED <<cbVars, pcbVars, retryVars, pipeVars, labVars>>

\* lines 311-312: the loop goes round and random.choice picks experiment
MonkeyPicks(experiment) ==
    /\ m_pc = "loop"
    /\ MonkeyContinues(now, start_time, m_duration)
    /\ Len(experiments_log) < MaxMonkeyLog
    /\ m_iterations' = m_iterations + 1
    /\ m_experiment' = experiment
    /\ ChaosOp(experiment)
    /\ UNCHANGED <<m_duration, m_interval, start_time>>
    /\ UNCHANGED <<cbVars, pcbVars, retryVars, pipeVars, labVars>>

\* lines 313-314: network_latency is activated
MonkeyNetworkLatency ==
    /\ MonkeyPicks("network_latency")
    /\ \E latency_ms \in MonkeyLatencies : NetworkLatencyBody(m_interval, latency_ms)
    /\ m_pc' = "active"
    /\ UNCHANGED <<now, experiment_count>>

\* lines 317-318: service_failure is activated
MonkeyServiceFailure ==
    /\ MonkeyPicks("service_failure")
    /\ \E service_type \in {"S3", "SQS"} : ServiceFailureBody(service_type, m_interval)
    /\ m_pc' = "active"
    /\ UNCHANGED <<now, experiment_count>>

\* lines 327-328: data_corruption is activated
MonkeyDataCorruption ==
    /\ MonkeyPicks("data_corruption")
    /\ \E probability \in MonkeyProbabilities : DataCorruptionBody(probability)
    /\ m_pc' = "active"
    /\ UNCHANGED <<now, experiment_count>>

\* lines 315-316, 319-320, 329-331: time.sleep(interval), the experiment's deactivation,
\* experiment_count += 1; a ValueError of time.sleep leaves the function
MonkeySleepsAndStops ==
    /\ m_pc = "active"
    /\ IF m_interval < 0
       THEN /\ m_pc' = "raised"
            /\ ch_raised' = "ValueError"
            /\ UNCHANGED <<now, clientVars, savedVars, experiments_log, current_duration,
                           ch_acts, ch_last, ch_repeat, ch_call, experiment_count>>
       ELSE /\ now' = now + m_interval
            /\ CASE m_experiment = "network_latency" ->
                       StopNetworkLatencyBody /\ ChaosOp("stop_network_latency")
                 [] m_experiment = "service_failure" ->
                       RestoreServicesBody /\ ChaosOp("restore_services")
                 [] m_experiment = "data_corruption" ->
                       StopDataCorruptionBody /\ ChaosOp("stop_data_corruption")
            /\ experiment_count' = experiment_count + 1
            /\ m_pc' = "loop"
    /\ UNCHANGED <<m_duration, m_interval, start_time, m_iterations, m_experiment>>
    /\ UNCHANGED <<cbVars, pcbVars, retryVars, pipeVars, labVars>>

\* lines 321-322, 331: high_cpu_load, experiment_count += 1
MonkeyHighCpuLoad ==
    /\ MonkeyPicks("high_cpu_load")
    /\ \E failed \in BOOLEAN : HighCpuLoadBody(m_interval, failed)
    /\ experiment_count' = experiment_count + 1
    /\ m_pc' = "loop"

\* lines 323-324, 331: memory_pressure, experiment_count += 1; what memory_pressure
\* does not catch leaves the function
MonkeyMemoryPressure ==
    /\ MonkeyPicks("memory_pressure")
    /\ \E raised \in {"none", "MemoryError", "Error"} :
          /\ MemoryPressureBody(m_interval, raised)
          /\ IF MemoryPressureRaises(m_interval, raised) \in {"none", "MemoryError"}
             THEN experiment_count' = experiment_count + 1 /\ m_pc' = "loop"
             ELSE UNCHANGED experiment_count /\ m_pc' = "raised"

\* ---------------------------------------------------------------------------
\* ResilientDataPipeline.run_resilient_pipeline (resilient_pipeline.py 115-214)
\* ---------------------------------------------------------------------------

\* generate_sample_data(15) (resilient_pipeline.py 28-44, 122): 15 rows, transaction_id
\* TXN_000001.., amount in [10.0, 1000.0]
GeneratedData == DataFrame(15, 0, Columns, {})

\* validate_data (resilient_pipeline.py 201-204)
required_columns == {"transaction_id", "customer_id", "amount", "department"}

\* validate_data (resilient_pipeline.py 207): (dataframe['amount'] <= 0).any(); the
\* generated amounts are at least 10.0 and a nulled amount is read back as NaN
NonPositiveAmount(df) == FALSE

\* validate_data (resilient_pipeline.py 211): dataframe['transaction_id'].duplicated().any();
\* a repeated row repeats its id, and nulled ids are equal to one another
DuplicatedTransactionId(df) ==
    \/ df.dups > 0
    \/ "transaction_id" \in df.nulled /\ Rows(df) >= 2

\* validate_data (resilient_pipeline.py 196-214) returns without raising
Validates(df) ==
    /\ required_columns \subseteq df.cols
    /\ ~NonPositiveAmount(df)
    /\ ~DuplicatedTransactionId(df)

\* a new pipeline, before run_resilient_pipeline is called
InitPipeline ==
    /\ pl_pc = "idle"
    /\ enable_chaos = FALSE
    /\ pl_attempt = 0
    /\ pl_stored = None
    /\ pl_accepted = TRUE
    /\ pl_result = "none"
    /\ pl_cause = "none"

\* lines 115-128: the call, generate_sample_data, chaos.data_corruption(0.3)
PipelineStart ==
    /\ pl_pc = "idle"
    /\ \E chaos \in BOOLEAN :
          /\ enable_chaos' = chaos
          /\ IF chaos
             THEN DataCorruptionBody(30) /\ ChaosOp("data_corruption")
             ELSE UNCHANGED chaosVars
    /\ pl_pc' = "upload"
    /\ UNCHANGED <<now, pl_attempt, pl_stored, pl_accepted, pl_result, pl_cause>>
    /\ UNCHANGED <<cbVars, pcbVars, retryVars, monkeyVars, labVars>>

\* lines 135-136: chaos.stop_data_corruption() after upload_with_retry
PipelineStopsCorruption ==
    IF enable_chaos
    THEN StopDataCorruptionBody /\ ChaosOp("stop_data_corruption")
    ELSE UNCHANGED chaosVars

\* lines 131-136 with upload_with_retry (46-55): an attempt succeeds
PipelineUploadSucceeds ==
    /\ pl_pc = "upload"
    /\ \E accept \in BOOLEAN : \E result \in UploadResults(GeneratedData, accept) :
          /\ result.outcome = "returned" /\ result.ret
          /\ pl_stored' = Some(result.df)
          /\ pl_accepted' = (pl_accepted /\ accept)
    /\ PipelineStopsCorruption
    /\ pl_pc' = "process"
    /\ UNCHANGED <<now, enable_chaos, pl_attempt, pl_result, pl_cause>>
    /\ UNCHANGED <<cbVars, pcbVars, retryVars, monkeyVars, labVars>>

\* lines 131-136, 156-158 with upload_with_retry (46-79): an attempt fails; after the
\* last one the dead letter is sent (queued: send_message returned a MessageId) and the
\* run returns False
PipelineUploadFails ==
    /\ pl_pc = "upload"
    /\ \E accept \in BOOLEAN : \E result \in UploadResults(GeneratedData, accept) :
          /\ ~(result.outcome = "returned" /\ result.ret)
          /\ IF InRange(pl_attempt + 1, 3)
             THEN /\ pl_accepted' = (pl_accepted /\ accept)
                  /\ UNCHANGED <<dlq_sent, dlq>>
             ELSE \E queued \in (IF send_message.kind = "failing" THEN {FALSE} ELSE BOOLEAN) :
                  LET error_message == DeadLetterRecord("resilient-raw-data", "key", now, 3)
                  IN  /\ dlq_sent' = Append(dlq_sent, error_message)
                      /\ dlq' = IF queued THEN Append(dlq, error_message) ELSE dlq
                      /\ pl_accepted' = (pl_accepted /\ accept /\ queued)
    /\ now' = now + SleepAfter(pl_attempt, 3)
    /\ IF InRange(pl_attempt + 1, 3)
       THEN /\ pl_attempt' = pl_attempt + 1
            /\ UNCHANGED <<chaosVars, pl_pc, pl_result, pl_cause>>
       ELSE /\ PipelineStopsCorruption
            /\ pl_pc' = "done"
            /\ pl_result' = "False"
            /\ pl_cause' = "upload"
            /\ UNCHANGED pl_attempt
    /\ UNCHANGED <<enable_chaos, pl_stored>>
    /\ UNCHANGED <<max_retries, attempt, r_pc, r_result, r_hist, r_sleeps, r_send>>
    /\ UNCHANGED <<cbVars, pcbVars, monkeyVars, labVars>>

\* process_data (160-194) raises: the download returned None, validate_data raised, or
\* the processed data could not be saved
ProcessDataRaises(downloaded, saved, validates) ==
    CASE ~downloaded -> "download"
      [] downloaded /\ ~validates -> "validate"
      [] downloaded /\ validates /\ ~saved -> "save"
      [] OTHER -> "none"

\* lines 138-155 with process_with_circuit_breaker (81-113) and process_data (160-194),
\* on the pipeline's first operation: the breaker cannot be open yet
PipelineProcess ==
    /\ pl_pc = "process"
    /\ \E downloaded \in BOOLEAN, saved \in BOOLEAN :
          LET validates == Validates(pl_stored[1])
              cause == ProcessDataRaises(downloaded, saved, validates)
              failed == (IF circuit_breaker_failures = None THEN 0
                         ELSE circuit_breaker_failures[1]) + 1
          IN  /\ pl_cause' = cause
              /\ pl_result' = IF cause = "none" THEN "True" ELSE "False"
              /\ pl_accepted' = (pl_accepted /\ downloaded /\ (validates => saved))
              /\ IF cause = "none"
                 THEN /\ circuit_breaker_failures' =
                            IF circuit_breaker_failures = None THEN None ELSE Some(0)
                      /\ UNCHANGED circuit_breaker_opened
                 ELSE /\ circuit_breaker_failures' = Some(failed)
                      /\ circuit_breaker_opened' =
                            IF failed >= max_failures THEN Some(now)
                            ELSE circuit_breaker_opened
    /\ pl_pc' = "done"
    /\ UNCHANGED <<now, chaosVars, enable_chaos, pl_attempt, pl_stored>>
    /\ UNCHANGED <<pcb_pc, pcb_calls, pcb_invocations, pcb_outcome, pcb_consec>>
    /\ UNCHANGED <<cbVars, retryVars, monkeyVars, labVars>>

\* the monkey and the pipeline before they run, in the other components' specifications
IdleMonkey == InitMonkey
IdlePipeline == InitPipeline

\* ---------------------------------------------------------------------------
\* CloudMonitor (lab10): monitor_s3_bucket and monitor_sqs_queue run as two
\* threads on one monitor (cloud_monitor.py, __main__)
\* ---------------------------------------------------------------------------
MonitorKeys == {"a.csv", "b.csv"}
MaxPolls == 3
MaxBatch == 1

\* __init__: the counters all start at 0
InitialMetrics ==
    [s3_operations |-> 0, sqs_messages_sent |-> 0, sqs_messages_received |-> 0, errors |-> 0]

\* line 25: what list_bucket_files returns: the keys in the bucket, or the empty
\* list of a listing that failed inside the client (CloudDataClient.list_bucket_files,
\* lab11 cloud_client.py 83-96: except Exception: return [])
Listings(keys) == {keys, {}}

\* line 26: new_files = current_files - last_files
NewFiles(current_files, last) == current_files \ last

\* lines 29-44: one notification per file handed to the for loop
Announce(sent) == [k \in MonitorKeys |-> mon_announced[k] + (IF k \in sent THEN 1 ELSE 0)]

InitMonitor ==
    /\ metrics = InitialMetrics
    /\ last_files = {}
    /\ bucket \in SUBSET MonitorKeys
    /\ s3_pc = "try"
    /\ sqs_pc = "try"
    /\ s3_loaded = 0
    /\ sqs_loaded = 0
    /\ mon_caught = 0
    /\ mon_announced = [k \in MonitorKeys |-> 0]
    /\ s3_polls = 0
    /\ sqs_polls = 0

\* a file is uploaded to the monitored bucket; files are never removed
BucketPut ==
    /\ \E k \in MonitorKeys \ bucket : bucket' = bucket \cup {k}
    /\ UNCHANGED <<metrics, last_files, s3_pc, sqs_pc, s3_loaded, sqs_loaded, mon_caught,
                   mon_announced, s3_polls, sqs_polls>>
    /\ UNCHANGED <<coreVars, calcVars, rmVars>>

\* lines 23-47, 53: an iteration of monitor_s3_bucket whose try body completes
S3Poll ==
    /\ s3_pc = "try"
    /\ s3_polls < MaxPolls
    /\ \E current_files \in Listings(bucket) :
         LET new_files == NewFiles(current_files, last_files) IN
           /\ mon_announced' = Announce(new_files)
           /\ metrics' = [metrics EXCEPT
                            !.sqs_messages_sent = @ + Cardinality(new_files),
                            !.s3_operations = @ + 1]
           /\ last_files' = current_files
    /\ s3_polls' = s3_polls + 1
    /\ UNCHANGED <<bucket, s3_pc, sqs_pc, s3_loaded, sqs_loaded, mon_caught, sqs_polls>>
    /\ UNCHANGED <<coreVars, calcVars, rmVars>>

\* lines 23-44, 49-50: an iteration of monitor_s3_bucket whose try body raises, at
\* the listing or in the for loop after the files in sent were announced; the
\* assignments of lines 46-47 are skipped
S3PollRaises ==
    /\ s3_pc = "try"
    /\ s3_polls < MaxPolls
    /\ \E current_files \in Listings(bucket) :
         \E sent \in SUBSET NewFiles(current_files, last_files) :
           /\ sent # NewFiles(current_files, last_files) \/ sent = {}
           /\ mon_announced' = Announce(sent)
           /\ metrics' = [metrics EXCEPT !.sqs_messages_sent = @ + Cardinality(sent)]
    /\ s3_pc' = "except"
    /\ mon_caught' = mon_caught + 1
    /\ s3_polls' = s3_polls + 1
    /\ UNCHANGED <<last_files, bucket, sqs_pc, s3_loaded, sqs_loaded, sqs_polls>>
    /\ UNCHANGED <<coreVars, calcVars, rmVars>>

\* line 51, first half of self.metrics['errors'] += 1: the counter is loaded
S3LoadErrors ==
    /\ s3_pc = "except"
    /\ s3_loaded' = metrics.errors
    /\ s3_pc' = "store"
    /\ UNCHANGED <<metrics, last_files, bucket, sqs_pc, sqs_loaded, mon_caught,
                   mon_announced, s3_polls, sqs_polls>>
    /\ UNCHANGED <<coreVars, calcVars, rmVars>>

\* line 51, second half: the loaded value plus one is stored; line 53: sleep
S3StoreErrors ==
    /\ s3_pc = "store"
    /\ metrics' = [metrics EXCEPT !.errors = s3_loaded + 1]
    /\ s3_pc' = "try"
    /\ UNCHANGED <<last_files, bucket, sqs_pc, s3_loaded, sqs_loaded, mon_caught,
                   mon_announced, s3_polls, sqs_polls>>
    /\ UNCHANGED <<coreVars, calcVars, rmVars>>

\* lines 59-76, 82: an iteration of monitor_sqs_queue whose try body completes
SqsPoll ==
    /\ sqs_pc = "try"
    /\ sqs_polls < MaxPolls
    /\ \E received \in 0..MaxBatch :
         metrics' = [metrics EXCEPT !.sqs_messages_received = @ + received]
    /\ sqs_polls' = sqs_polls + 1
    /\ UNCHANGED <<last_files, bucket, s3_pc, sqs_pc, s3_loaded, sqs_loaded, mon_caught,
                   mon_announced, s3_polls>>
    /\ UNCHANGED <<coreVars, calcVars, rmVars>>

\* lines 59-74, 78-79: an iteration of monitor_sqs_queue whose try body raises
\* (process_monitoring_message on a body without the key it reads); line 76 is skipped
SqsPollRaises ==
    /\ sqs_pc = "try"
    /\ sqs_polls < MaxPolls
    /\ sqs_pc' = "except"
    /\ mon_caught' = mon_caught + 1
    /\ sqs_polls' = sqs_polls + 1
    /\ UNCHANGED <<metrics, last_files, bucket, s3_pc, s3_loaded, sqs_loaded,
                   mon_announced, s3_polls>>
    /\ UNCHANGED <<coreVars, calcVars, rmVars>>

\* line 80, first half of self.metrics['errors'] += 1
SqsLoadErrors ==
    /\ sqs_pc = "except"
    /\ sqs_loaded' = metrics.errors
    /\ sqs_pc' = "store"
    /\ UNCHANGED <<metrics, last_files, bucket, s3_pc, s3_loaded, mon_caught,
                   mon_announced, s3_polls, sqs_polls>>
    /\ UNCHANGED <<coreVars, calcVars, rmVars>>

\* line 80, second half; line 82: sleep
SqsStoreErrors ==
    /\ sqs_pc = "store"
    /\ metrics' = [metrics EXCEPT !.errors = sqs_loaded + 1]
    /\ sqs_pc' = "try"
    /\ UNCHANGED <<last_files, bucket, s3_pc, s3_loaded, sqs_loaded, mon_caught,
                   mon_announced, s3_polls, sqs_polls>>
    /\ UNCHANGED <<coreVars, calcVars, rmVars>>

\* ---------------------------------------------------------------------------
\* calculate_commission (lab3)
\* ---------------------------------------------------------------------------
CalcRadius == 6

\* the integer arguments tried: the amounts around each limit of the function
CalcAmounts ==
    UNION {(b - CalcRadius)..(b + CalcRadius) : b \in {0, 100, 1000, 20000, 40000, 50000}}

\* what a call does: the exception class it raises or "none", and the commission
\* it returns in hundredths of a rouble
Commission(raised, hundredths) == [raised |-> raised, hundredths |-> hundredths]

\* line 11: amount < 100 or amount > 50000
OutOfRange(a) == a < 100 \/ a > 50000

\* line 16: amount <= 1000
InLowestBandStrict(a) == a < 1000
InLowestBand(a) == a <= 1000

\* lines 8-21; the arguments tried are integers, so the isinstance test of line 8 passes
calculate_commission(a) ==
    IF OutOfRange(a) THEN Commission("ValueError", 0)
    ELSE IF a > 40000 THEN Commission("none", 50000)
    ELSE IF InLowestBand(a) THEN Commission("none", 5000)
    ELSE IF a <= 20000 THEN Commission("none", 10000)
    ELSE Commission("none", 20000 + a)

InitCalc ==
    /\ amount \in CalcAmounts
    /\ calc_pc = "call"
    /\ calc_result = Commission("none", 0)

\* one call of calculate_commission(amount)
CalcCall ==
    /\ calc_pc = "call"
    /\ calc_result' = calculate_commission(amount)
    /\ calc_pc' = "done"
    /\ UNCHANGED amount
    /\ UNCHANGED <<coreVars, monitorVars, rmVars>>

\* ---------------------------------------------------------------------------
\* ResilienceMonitor.collect_metrics (resilience_monitor.py 73-112)
\* ---------------------------------------------------------------------------
MaxRmIterations == 2

\* ResilienceMonitor.__init__ (68-71): a new pipeline (retry_count = 0,
\* resilient_pipeline.py 11), a ChaosFramework of the monitor's own, no metrics
InitRm ==
    /\ retry_count = 0
    /\ rm_experiments_log = <<>>
    /\ rm_metrics = <<>>
    /\ rm_observed = <<>>

\* lines 79-84: the loop goes round and calls run_resilient_pipeline(enable_chaos=True)
CollectRunsPipeline ==
    /\ Len(rm_metrics) < MaxRmIterations
    /\ PipelineStart
    /\ enable_chaos'

\* lines 85-109: the pipeline run returned; monitor_dead_letter_queue(5) empties the
\* dead-letter queue in one pass of 5 seconds (resilient_pipeline.py 216-239), the
\* record is appended and retry_count is reset; the next run_resilient_pipeline call
\* starts from the beginning
CollectAppends ==
    /\ pl_pc = "done"
    /\ Len(rm_metrics) < MaxRmIterations
    /\ rm_metrics' = Append(rm_metrics,
                            [iteration |-> Len(rm_metrics) + 1,
                             pipeline_success |-> (pl_result = "True"),
                             retry_count |-> retry_count,
                             dlq_errors |-> Len(dlq),
                             chaos_experiments |-> Len(rm_experiments_log)])
    /\ rm_observed' = Append(rm_observed,
                             [upload_retries |-> pl_attempt,
                              activated |-> Len(experiments_log)])
    /\ retry_count' = 0
    /\ dlq' = <<>>
    /\ now' = now + 5
    /\ pl_pc' = "idle"
    /\ pl_attempt' = 0
    /\ pl_stored' = None
    /\ pl_accepted' = TRUE
    /\ pl_result' = "none"
    /\ pl_cause' = "none"
    /\ UNCHANGED <<enable_chaos, rm_experiments_log, dlq_sent>>
    /\ UNCHANGED <<max_retries, attempt, r_pc, r_result, r_hist, r_sleeps, r_send>>
    /\ UNCHANGED <<cbVars, pcbVars, chaosVars, monkeyVars, monitorVars, calcVars>>

\* the lab10 and lab3 components before they run, in the other components' specifications
IdleMonitor ==
    /\ InitMonitor
    /\ bucket = {}

IdleCalc ==
    /\ InitCalc
    /\ amount = 100

IdleLab ==
    /\ IdleMonitor
    /\ IdleCalc
    /\ InitRm

\* ---------------------------------------------------------------------------
\* Specifications
\* ---------------------------------------------------------------------------

\* CircuitBreaker (lab5) under every sequence of calls, outcomes and clock ticks
Init ==
    /\ now = 0
    /\ InitCB
    /\ InitPCB
    /\ IdleRetry
    /\ IdleChaos
    /\ IdleMonkey
    /\ IdlePipeline
    /\ IdleLab

Next ==
    \/ Tick
    \/ CallRejected
    \/ CallInvoke
    \/ FuncReturns
    \/ FuncRaises

Spec == Init /\ [][Next]_vars

\* process_with_circuit_breaker (lab11)
InitPcbSpec ==
    /\ now = 0
    /\ IdleCB
    /\ InitPCB
    /\ IdleRetry
    /\ IdleChaos
    /\ IdleMonkey
    /\ IdlePipeline
    /\ IdleLab

NextPcb ==
    \/ PcbTick
    \/ PcbBlocked
    \/ PcbInvoke
    \/ PcbOpReturns
    \/ PcbOpRaises

SpecPcb == InitPcbSpec /\ [][NextPcb]_vars

\* upload_with_retry (lab11)
InitRetrySpec ==
    /\ now = 0
    /\ IdleCB
    /\ InitPCB
    /\ InitRetry
    /\ IdleChaos
    /\ IdleMonkey
    /\ IdlePipeline
    /\ IdleLab

NextRetry ==
    \/ UploadSucceeds
    \/ UploadReturnsFalsy
    \/ UploadRaises
    \/ DlqSendDelivers
    \/ DlqSendReturnsNone
    \/ DlqSendRaises

SpecRetry == InitRetrySpec /\ [][NextRetry]_vars

\* Each step of the function runs once its collaborator has returned or raised
FairSpecRetry == SpecRetry /\ WF_vars(NextRetry)

\* ChaosFramework (lab11) under every order of its operations and client calls
InitChaosSpec ==
    /\ now = 0
    /\ IdleCB
    /\ InitPCB
    /\ IdleRetry
    /\ InitChaos
    /\ IdleMonkey
    /\ IdlePipeline
    /\ IdleLab

NextChaos ==
    \/ ChaosTick
    \/ NetworkLatency
    \/ StopNetworkLatency
    \/ ServiceFailure
    \/ RestoreServices
    \/ DataCorruption
    \/ StopDataCorruption
    \/ UploadCall
    \/ OtherCall

SpecChaos == InitChaosSpec /\ [][NextChaos]_vars

\* run_chaos_monkey (lab11) on a new framework
InitMonkeySpec ==
    /\ now = 0
    /\ IdleCB
    /\ InitPCB
    /\ IdleRetry
    /\ InitChaos
    /\ InitMonkey
    /\ IdlePipeline
    /\ IdleLab

NextMonkey ==
    \/ MonkeyStart
    \/ MonkeyNetworkLatency
    \/ MonkeyServiceFailure
    \/ MonkeyDataCorruption
    \/ MonkeySleepsAndStops
    \/ MonkeyHighCpuLoad
    \/ MonkeyMemoryPressure
    \/ MonkeyReturns

SpecMonkey == InitMonkeySpec /\ [][NextMonkey]_vars

\* run_resilient_pipeline (lab11) on a new pipeline
InitPipelineSpec ==
    /\ now = 0
    /\ IdleCB
    /\ InitPCB
    /\ IdleRetry
    /\ InitChaos
    /\ IdleMonkey
    /\ InitPipeline
    /\ IdleLab

NextPipeline ==
    \/ PipelineStart
    \/ PipelineUploadSucceeds
    \/ PipelineUploadFails
    \/ PipelineProcess

SpecPipeline == InitPipelineSpec /\ [][NextPipeline]_vars

\* CloudMonitor (lab10): the two monitor threads under every interleaving
InitMonitorSpec ==
    /\ now = 0
    /\ IdleCB
    /\ InitPCB
    /\ IdleRetry
    /\ IdleChaos
    /\ IdleMonkey
    /\ IdlePipeline
    /\ InitMonitor
    /\ IdleCalc
    /\ InitRm

NextMonitor ==
    \/ BucketPut
    \/ S3Poll
    \/ S3PollRaises
    \/ S3LoadErrors
    \/ S3StoreErrors
    \/ SqsPoll
    \/ SqsPollRaises
    \/ SqsLoadErrors
    \/ SqsStoreErrors

SpecMonitor == InitMonitorSpec /\ [][NextMonitor]_vars

\* calculate_commission (lab3) on every amount around its limits
InitCalcSpec ==
    /\ now = 0
    /\ IdleCB
    /\ InitPCB
    /\ IdleRetry
    /\ IdleChaos
    /\ IdleMonkey
    /\ IdlePipeline
    /\ IdleMonitor
    /\ InitCalc
    /\ InitRm

NextCalc == CalcCall

SpecCalc == InitCalcSpec /\ [][NextCalc]_vars

\* collect_metrics (lab11) on a new ResilienceMonitor
InitRmSpec == InitPipelineSpec

NextRm ==
    \/ CollectRunsPipeline
    \/ PipelineUploadSucceeds
    \/ PipelineUploadFails
    \/ PipelineProcess
    \/ CollectAppends

SpecRm == InitRmSpec /\ [][NextRm]_vars

\* ---------------------------------------------------------------------------
\* Properties
\* ---------------------------------------------------------------------------

\* every upload invocation so far failed (raised or returned a falsy value)
AllUploadsFailed == \A i \in 1..Len(r_hist) : r_hist[i] # "truthy"

RECURSIVE SeqSum(_)
SeqSum(s) == IF s = <<>> THEN 0 ELSE Head(s) + SeqSum(Tail(s))

\* C1: after failure_threshold consecutive failing invocations the breaker is OPEN,
\* and a call made while now - last_failure_time < timeout is rejected without
\* invoking func (the invocation count does not move).
C1_TripThenReject ==
    [][ /\ (cb_pc' = "idle" /\ cb_consec' >= failure_threshold') => state' = "OPEN"
        /\ (cb_calls' = cb_calls + 1 /\ state = "OPEN"
              /\ now - last_failure_time[1] < timeout)
           => (cb_outcome' = "rejected" /\ cb_invocations' = cb_invocations
                 /\ state' = "OPEN" /\ cb_pc' = "idle") ]_vars

\* C1 witness: threshold 3, three failing invocations and nothing else, then a rejected call
C1_Witness ==
    /\ failure_threshold = 3
    /\ state = "OPEN"
    /\ cb_outcome = "rejected"
    /\ cb_consec = 3
    /\ cb_invocations = 3

\* C2 (as claimed): a call made once now - last_failure_time >= timeout, equality
\* included, is attempted in HALF_OPEN, and a successful probe closes the breaker
\* with a failure count of 0.
C2_RecoveryFromTimeout ==
    [][ /\ (cb_calls' = cb_calls + 1 /\ state = "OPEN"
              /\ now - last_failure_time[1] >= timeout)
           => (state' = "HALF_OPEN" /\ cb_pc' = "in_func"
                 /\ cb_invocations' = cb_invocations + 1)
        /\ (cb_pc = "in_func" /\ state = "HALF_OPEN" /\ cb_outcome' = "returned")
           => (state' = "CLOSED" /\ failures' = 0) ]_vars

\* C3 (as claimed): a successful call in CLOSED resets the failure count to 0, and
\* as long as no run of failure_threshold consecutive failures has occurred the
\* breaker is CLOSED.
C3_OnlyConsecutiveFailuresTrip ==
    [][ /\ (cb_pc = "in_func" /\ state = "CLOSED" /\ cb_outcome' = "returned")
           => failures' = 0
        /\ (cb_pc' = "idle" /\ cb_maxConsec' < failure_threshold')
           => state' = "CLOSED" ]_vars

\* C4: state = OPEN implies last_failure_time is set and failures >= failure_threshold.
C4_OpenInvariant ==
    state = "OPEN" => (last_failure_time # None /\ failures >= failure_threshold)

\* C4 witness: OPEN again after a failed probe, so the count is above the threshold
C4_Witness ==
    /\ state = "OPEN"
    /\ failures > failure_threshold
    /\ last_failure_time # None
    /\ now > last_failure_time[1]

\* C5: a failing HALF_OPEN probe increments failures by one, leaves the breaker
\* OPEN, sets last_failure_time to the time of the failure, and the caller sees
\* the error raised.
C5_FailedProbeReopens ==
    [][ (cb_pc = "in_func" /\ state = "HALF_OPEN" /\ cb_consec' = cb_consec + 1)
        => (/\ failures' = failures + 1
            /\ state' = "OPEN"
            /\ last_failure_time' = Some(now')
            /\ cb_outcome' = "raised") ]_vars

\* C5 witness: the last invocation was a probe, it raised, and the breaker is OPEN
C5_Witness ==
    /\ cb_probe
    /\ cb_outcome = "raised"
    /\ state = "OPEN"
    /\ last_failure_time = Some(now)

\* C6: after 3 consecutive raising invocations, every call made while
\* now - circuit_breaker_opened < 30 returns None and does not invoke the operation.
C6_BlockedAfterThreeFailures ==
    [][ /\ (pcb_pc' = "idle" /\ pcb_consec' >= max_failures)
           => circuit_breaker_opened' # None
        /\ (pcb_calls' = pcb_calls + 1 /\ pcb_consec >= max_failures
              /\ now - circuit_breaker_opened[1] < reset_timeout)
           => (pcb_outcome' = "None" /\ pcb_invocations' = pcb_invocations
                 /\ pcb_pc' = "idle") ]_vars

\* C6 witness: three raising invocations, then two calls that returned None
C6_Witness ==
    /\ pcb_outcome = "None"
    /\ pcb_invocations = 3
    /\ pcb_consec = 3
    /\ pcb_calls = 5

\* C7 (as claimed): when every upload fails, the upload is invoked max_retries times,
\* the result is False, and exactly one record with attempts = max_retries is in
\* the dead-letter queue.
C7_ExhaustionDelivers ==
    (r_pc = "done" /\ AllUploadsFailed)
    => (/\ Len(r_hist) = max_retries
        /\ r_result = "False"
        /\ Len(dlq) = 1
        /\ dlq[1].attempts = max_retries)

\* C7 (amended): when every upload fails, the upload is invoked max_retries times,
\* the result is False, and exactly one record with attempts = max_retries is handed
\* to send_message; it is in the dead-letter queue exactly when that send succeeded.
C7_ExhaustionSendsOnce ==
    (r_pc = "done" /\ AllUploadsFailed)
    => (/\ Len(r_hist) = max_retries
        /\ r_result = "False"
        /\ Len(dlq_sent) = 1
        /\ dlq_sent[1].attempts = max_retries
        /\ dlq = IF r_send = "ok" THEN dlq_sent ELSE <<>>)

\* C7 witness: three failing uploads, the dead-letter send returned None
C7_Witness ==
    /\ r_pc = "done"
    /\ max_retries = 3
    /\ r_hist = <<"raise", "falsy", "raise">>
    /\ r_send = "none"
    /\ Len(dlq_sent) = 1
    /\ dlq = <<>>

\* C8: when the first k < max_retries uploads fail and upload k+1 succeeds, the
\* function has returned True after exactly k+1 invocations and sent nothing to
\* the dead-letter queue.
C8_SuccessPath ==
    \A k \in 0..(max_retries - 1) :
        (/\ Len(r_hist) >= k + 1
         /\ \A i \in 1..k : r_hist[i] # "truthy"
         /\ r_hist[k + 1] = "truthy")
        => (/\ r_pc = "done"
            /\ r_result = "True"
            /\ Len(r_hist) = k + 1
            /\ dlq_sent = <<>>
            /\ dlq = <<>>)

\* C8 witness: max_retries 4, two failures (one raised, one falsy), then success
C8_Witness ==
    /\ max_retries = 4
    /\ r_hist = <<"raise", "falsy", "truthy">>
    /\ r_result = "True"

C10_NeverRaises ==
    /\ <>(r_pc = "done")
    /\ [](r_result # "raised")
    /\ [](r_pc = "done" => r_result \in {"True", "False"})

\* C10 witness: every upload raised and the dead-letter send raised too
C10_Witness ==
    /\ r_pc = "done"
    /\ max_retries = 2
    /\ r_hist = <<"raise", "raise">>
    /\ r_send = "raise"
    /\ r_result = "False"

\* ---- ChaosFramework ----

\* every client operation is the CloudDataClient method itself
AllOriginal ==
    /\ upload_csv_to_s3 = Orig("upload_csv_to_s3")
    /\ download_csv_from_s3 = Orig("download_csv_from_s3")
    /\ send_message = Orig("send_message")
    /\ receive_messages = Orig("receive_messages")

\* the types of the experiments activated so far
LogTypes == {experiments_log[i].type : i \in 1..Len(experiments_log)}

Deactivations == {"stop_network_latency", "stop_data_corruption", "restore_services"}

\* the type of experiment a deactivation method undoes
ActivationTypeOf(op) ==
    CASE op = "stop_network_latency" -> "NETWORK_LATENCY"
      [] op = "stop_data_corruption" -> "DATA_CORRUPTION"
      [] op = "restore_services" -> "SERVICE_FAILURE"

\* C11: a deactivation method (stop_network_latency, stop_data_corruption,
\* restore_services) never raises, and when it is called a second time in a row, or with
\* no activation before it, on a framework that has only ever activated its own kind of
\* fault, it leaves upload, download, send and receive equal to the original methods.
C11_DeactivationIdempotent ==
    ch_last \in Deactivations =>
        /\ ch_raised = "none"
        /\ ( /\ (ch_repeat \/ experiments_log = <<>>)
             /\ LogTypes \subseteq {ActivationTypeOf(ch_last)} )
           => AllOriginal

\* a failure of the service group is active: its saved originals are held
S3FailureActive == original_s3_upload # None
SqsFailureActive == original_sqs_send # None

\* C12: on a framework that has only ever activated service failures: while an S3
\* failure is active and no SQS failure is, upload and download calls raise 'S3 FAIL' and
\* send and receive are the originals; symmetrically for SQS; and a step that restores
\* one group leaves the operations and the saved originals of the other group as they
\* were, so that one group can be restored while the other stays failing.
C12_ServiceGroupIsolation ==
    [][LogTypes \subseteq {"SERVICE_FAILURE"} =>
        /\ (S3FailureActive /\ ~SqsFailureActive) =>
              /\ send_message = Orig("send_message")
              /\ receive_messages = Orig("receive_messages")
              /\ (ch_last = "call" /\ ch_call.op \in {"upload_csv_to_s3", "download_csv_from_s3"})
                    => ch_call.result.outcome = "S3 FAIL"
        /\ (SqsFailureActive /\ ~S3FailureActive) =>
              /\ upload_csv_to_s3 = Orig("upload_csv_to_s3")
              /\ download_csv_from_s3 = Orig("download_csv_from_s3")
              /\ (ch_last = "call" /\ ch_call.op \in {"send_message", "receive_messages"})
                    => ch_call.result.outcome = "SQS FAIL"
        /\ (S3FailureActive /\ ~S3FailureActive') =>
              UNCHANGED <<send_message, receive_messages, original_sqs_send,
                          original_sqs_receive>>
        /\ (SqsFailureActive /\ ~SqsFailureActive') =>
              UNCHANGED <<upload_csv_to_s3, download_csv_from_s3, original_s3_upload,
                          original_s3_download>>]_vars

\* C13: right after restore_services, whatever service_failure activations preceded it
\* (no other kind of fault was ever activated), upload, download, send and receive are
\* the original methods and the framework holds no saved original.
C13_RestoreRestoresEverything ==
    (ch_last = "restore_services" /\ LogTypes \subseteq {"SERVICE_FAILURE"}) =>
        /\ AllOriginal
        /\ original_s3_upload = None /\ original_s3_download = None /\ s3_restore_time = None
        /\ original_sqs_send = None /\ original_sqs_receive = None /\ sqs_restore_time = None

\* the last operation was an upload call through the wrapper fn_kind
UploadCalledThrough(fn_kind) ==
    /\ ch_last = "call"
    /\ ch_call.op = "upload_csv_to_s3"
    /\ upload_csv_to_s3.kind = fn_kind

C15_CorruptionExtremes ==
    (LogTypes \subseteq {"DATA_CORRUPTION"} /\ UploadCalledThrough("corrupt")) =>
        /\ ch_call.result.delivered
        /\ upload_csv_to_s3.p = 100 => ch_call.result.df # ch_call.sent
        /\ upload_csv_to_s3.p = 0 => ch_call.result.df = ch_call.sent

\* C16: every activation that returned appended one entry whose success flag equals
\* the returned value and tells whether the setup took effect, and no step removes or
\* rewrites an entry.
C16_ExperimentLog ==
    [][ /\ Len(ch_acts') = Len(experiments_log')
        /\ \A i \in 1..Len(experiments_log') :
              /\ experiments_log'[i].success = ch_acts'[i].returned
              /\ experiments_log'[i].success = ch_acts'[i].effect
        /\ Len(experiments_log') >= Len(experiments_log)
        /\ SubSeq(experiments_log', 1, Len(experiments_log)) = experiments_log ]_vars

\* the fault rules active on upload_csv_to_s3: those whose saved original is held
ActiveUploadRules ==
    {k \in {"latency", "service_failure", "data_corruption"} :
        \/ k = "latency" /\ original_upload_for_latency # None
        \/ k = "service_failure" /\ original_s3_upload # None
        \/ k = "data_corruption" /\ original_upload_method # None}

\* C19: in every reachable state at most one of latency, service failure and data
\* corruption is active on the upload operation.
C19_FaultRuleExclusivity == Cardinality(ActiveUploadRules) <= 1

\* ---- run_chaos_monkey ----

\* C17: when run_chaos_monkey returns, the count it returns equals the number of loop
\* iterations and the number of entries appended to experiments_log during the run,
\* and it is at least 1 when duration > 0.
C17_MonkeyCount ==
    m_pc = "returned" =>
        /\ experiment_count = m_iterations
        /\ experiment_count = Len(experiments_log)
        /\ m_duration > 0 => experiment_count >= 1

\* a run of several experiments has returned
C17_Witness ==
    /\ m_pc = "returned"
    /\ m_duration > 0
    /\ experiment_count >= 2
    /\ experiment_count = Len(experiments_log)

\* C18: no exception of an experiment's activation or deactivation ever leaves
\* run_chaos_monkey: every iteration begun is logged and the loop goes on.
C18_MonkeyIsolatesFailures ==
    /\ m_pc # "raised"
    /\ m_pc = "loop" => Len(experiments_log) = m_iterations

\* ---- run_resilient_pipeline ----

\* C20: run_resilient_pipeline(enable_chaos=True) returns True whatever the corruption
\* wrapper's random choices were, when storage and queue accepted every request.
C20_PipelineWithstandsChaos ==
    (pl_pc = "done" /\ enable_chaos /\ pl_accepted) => pl_result = "True"

\* C21: when monitor_s3_bucket and monitor_sqs_queue run as two threads on one
\* CloudMonitor, metrics['errors'] equals the number of exceptions the two loops
\* have caught, whenever neither thread is inside its except clause
C21_ErrorsCountsEveryException ==
    (s3_pc = "try" /\ sqs_pc = "try") => metrics.errors = mon_caught

\* C22: calculate_commission returns 50 for 100..1000, 100 for 1001..20000, 200 plus
\* 1% of the amount for 20001..40000 and 500 for 40001..50000, and raises ValueError
\* without a commission for every integer amount below 100 or above 50000
C22_CommissionTable ==
    calc_pc = "done" =>
        /\ (amount >= 100 /\ amount <= 1000) => calc_result = Commission("none", 50 * 100)
        /\ (amount >= 1001 /\ amount <= 20000) => calc_result = Commission("none", 100 * 100)
        /\ (amount >= 20001 /\ amount <= 40000) =>
               calc_result = Commission("none", 200 * 100 + amount)
        /\ (amount >= 40001 /\ amount <= 50000) => calc_result = Commission("none", 500 * 100)
        /\ (amount < 100 \/ amount > 50000) => calc_result.raised = "ValueError"

C22_Witness ==
    /\ calc_pc = "done"
    /\ amount = 1000
    /\ calc_result = Commission("none", 5000)

\* C30: over any run of monitor_s3_bucket, for every sequence of listings of a bucket
\* whose keys stay (a failed listing being the empty list), a NEW_S3_FILE notification
\* is sent at most once per key and sqs_messages_sent is the number of distinct keys
\* announced
C30_NotifiesOncePerFile ==
    /\ \A k \in MonitorKeys : mon_announced[k] <= 1
    /\ metrics.sqs_messages_sent = Cardinality({k \in MonitorKeys : mon_announced[k] > 0})

\* C23: a call of CircuitBreaker.call that is rejected (the breaker is OPEN and the
\* timeout has not elapsed) changes none of failures, last_failure_time and state, so
\* the time at which the breaker half-opens, last_failure_time + timeout, stays the same
\* however many calls are rejected
C23_RejectionLeavesBreakerUntouched ==
    [][(cb_calls' = cb_calls + 1 /\ cb_outcome' = "rejected") =>
           /\ UNCHANGED <<failures, last_failure_time, state, timeout>>
           /\ state = "OPEN"
           /\ last_failure_time'[1] + timeout' = last_failure_time[1] + timeout]_vars

\* a call was rejected later than the failure that opened the breaker
C23_Witness ==
    /\ cb_outcome = "rejected"
    /\ state = "OPEN"
    /\ now > last_failure_time[1]

\* C24: in process_with_circuit_breaker, when the call attempted after the reset
\* timeout (the probe: the breaker was open and its count was reset at line 93) fails,
\* the breaker is open again at once: a call made within reset_timeout of the failed
\* probe is blocked and returns None without invoking the operation
C24_FailedProbeReopens ==
    [][(/\ pcb_pc = "in_op"
        /\ circuit_breaker_failures = Some(0)
        /\ pcb_consec >= max_failures
        /\ pcb_outcome' = "raised") =>
           /\ PcbIsOpen(circuit_breaker_failures')
           /\ PcbWithinTimeout(now', circuit_breaker_opened')]_vars

\* the smallest integer that is at least a / b, for b > 0
CeilDiv(a, b) == (a + b - 1) \div b

\* C25: for every duration >= 0 and interval > 0, run_chaos_monkey stops picking
\* experiments once the duration has elapsed: when it returns it has run at most
\* ceil(duration / interval) experiments, whatever the random choices were
C25_MonkeyBoundedExperiments ==
    (m_pc = "returned" /\ m_interval > 0) =>
        experiment_count <= CeilDiv(m_duration, m_interval)

\* no original operation is held in a saved-original record
NoSavedOriginal ==
    /\ original_upload_for_latency = None
    /\ original_upload_method = None
    /\ original_s3_upload = None
    /\ original_s3_download = None
    /\ original_sqs_send = None
    /\ original_sqs_receive = None

\* C26: run_chaos_monkey started on a framework with no active fault: at the end of
\* every loop iteration and when the function returns, upload, download, send and
\* receive are the original operations and no saved-original record is held, for every
\* sequence of experiment choices
C26_MonkeyLeavesNoFault ==
    m_pc \in {"loop", "returned"} =>
        /\ AllOriginal
        /\ NoSavedOriginal

\* a run whose iterations activated latency, a service failure and corruption has returned
C26_Witness ==
    /\ m_pc = "returned"
    /\ LogTypes = {"NETWORK_LATENCY", "SERVICE_FAILURE", "DATA_CORRUPTION"}
    /\ AllOriginal

\* C27: on a framework where network_latency, data_corruption and service_failure('S3')
\* were each activated at most once, in any order with their deactivations: once every
\* activated kind has been deactivated the upload operation is the original one, and a
\* call of it returns what the original returns, undelayed and with the input it was given
C27_OverlappingFaultsRestoreCleanly ==
    (/\ Len(experiments_log) = Cardinality(LogTypes)
     /\ \A i \in 1..Len(experiments_log) :
           experiments_log[i].type = "SERVICE_FAILURE" => experiments_log[i].arg = "S3"
     /\ ActiveUploadRules = {}) =>
        /\ upload_csv_to_s3 = Orig("upload_csv_to_s3")
        /\ (ch_last = "call" /\ ch_call.op = "upload_csv_to_s3") =>
              /\ ch_call.result.outcome = "returned"
              /\ ch_call.result.delay = 0
              /\ ch_call.result.df = ch_call.sent

\* C28: when network_latency (respectively data_corruption) is activated several times,
\* the saved original stays the client's own upload method, the wrapper installed is
\* the one of the latest activation, an upload call through it reaches the original
\* with the delay (respectively the corruption draw) of that activation applied once,
\* and one stop_network_latency (respectively stop_data_corruption) puts the original
\* upload operation back
C28_ReactivationDoesNotNest ==
    /\ (LogTypes = {"NETWORK_LATENCY"} /\ original_upload_for_latency # None) =>
          /\ original_upload_for_latency = Some(Orig("upload_csv_to_s3"))
          /\ upload_csv_to_s3.kind = "delayed"
          /\ ToString(upload_csv_to_s3.ms) = experiments_log[Len(experiments_log)].arg
          /\ UploadCalledThrough("delayed") =>
                /\ ch_call.result.outcome = "returned"
                /\ ch_call.result.df = ch_call.sent
                /\ ch_call.result.delay \in {0, upload_csv_to_s3.ms}
    /\ (LogTypes = {"NETWORK_LATENCY"} /\ ch_last = "stop_network_latency") =>
          /\ upload_csv_to_s3 = Orig("upload_csv_to_s3")
          /\ original_upload_for_latency = None
    /\ (LogTypes = {"DATA_CORRUPTION"} /\ original_upload_method # None) =>
          /\ original_upload_method = Some(Orig("upload_csv_to_s3"))
          /\ upload_csv_to_s3.kind = "corrupt"
          /\ ToString(upload_csv_to_s3.p) = experiments_log[Len(experiments_log)].arg
          /\ UploadCalledThrough("corrupt") =>
                /\ ch_call.result.outcome = "returned"
                /\ ch_call.result.delay = 0
                /\ ch_call.result.df \in
                      {ch_call.sent} \cup
                      {Corrupted(ch_call.sent, draw) : draw \in Draws(ch_call.sent)}
    /\ (LogTypes = {"DATA_CORRUPTION"} /\ ch_last = "stop_data_corruption") =>
          /\ upload_csv_to_s3 = Orig("upload_csv_to_s3")
          /\ original_upload_method = None

\* network_latency was called twice in a row with different delays
C28_Witness ==
    /\ ch_last = "network_latency"
    /\ ch_repeat
    /\ Len(experiments_log) = 2
    /\ experiments_log[1].arg # experiments_log[2].arg
    /\ ToString(upload_csv_to_s3.ms) = experiments_log[2].arg
    /\ original_upload_for_latency = Some(Orig("upload_csv_to_s3"))

\* C29: in every record collect_metrics appends, retry_count is the number of upload
\* attempts beyond the first that upload_with_retry made in that iteration's pipeline
\* run, and chaos_experiments is the number of chaos experiments activated so far on
\* the monitored pipeline's client
C29_MetricsReflectTheRun ==
    \A i \in 1..Len(rm_metrics) :
        /\ rm_metrics[i].retry_count = rm_observed[i].upload_retries
        /\ rm_metrics[i].chaos_experiments = rm_observed[i].activated

=============================================================================
